---- MODULE Spec2Model ----
(***************************************************************************)
(* obsidian-to-sql: the token-aware chunker (chunk_text_by_tokens) and the *)
(* adaptive-threshold similarity search (adaptive_search_notes).           *)
(*                                                                         *)
(* Texts are sequences of characters over a two-letter alphabet (1 = "a",  *)
(* 2 = "b").  The tokenizer is a small byte-pair vocabulary: token 1 is    *)
(* "a", token 2 is "b" and token 3 is the merged pair "ab".                *)
(* Similarities and thresholds are fixed-point numbers in hundredths       *)
(* (80 is 0.80); arithmetic on them is exact.                              *)
(***************************************************************************)
EXTENDS Integers, Sequences, FiniteSets, TLC

VARIABLES
    \* chunk_text_by_tokens
    text,                 \* the text argument
    target_chunk_size,    \* the target_chunk_size argument
    c_pc,                 \* "call" before the call, "done" after it
    chunks,               \* the returned list of chunk texts
    windows,              \* chunk_tokens of every emitted chunk, in order
    raised,               \* the exception the call raised, or "none"
    \* adaptive_search_notes
    initial_threshold,
    min_threshold,
    threshold_step,
    min_results,
    max_results,
    stored,               \* the rows the candidates query would return
    s_pc,                 \* position in adaptive_search_notes
    all_candidates,
    current_threshold,
    final_results,
    attempted_thresholds,
    total_candidates_checked,
    response,             \* the returned dict, or what the call raised
    folder_path,          \* the folder_path argument, "none" for None
    show_debug,           \* the show_debug argument of format_search_results
    output,               \* the lines format_search_results returned, <<>> before
    \* sync_notes
    notes,                \* the committed rows of local.notes
    tx,                   \* <<rows>> while the connection holds uncommitted writes, else <<>>
    n_pc,                 \* position in sync_notes
    todo,                 \* the files os.walk has still to yield
    walked,               \* the files os.walk yields in this run
    cur,                  \* the values extracted from the current file
    runs,                 \* sync_notes runs started so far (the clock of CURRENT_TIMESTAMP)
    snap,                 \* local.notes when the current file's try block was entered
    last,                 \* the last "Synced" / "Error processing" line printed
    attempted,            \* the paths whose try block this run has entered
    ingested,             \* the paths committed at least once
    \* process_title / process_content
    note,                 \* the note get_random_note returns
    embeddings,           \* the committed rows of local.note_embeddings, in insertion order
    i_pc,                 \* position in main of test_embeddings.py
    note_chunks,          \* process_content's chunks
    chunk_i,              \* process_content's loop index i
    ingest_runs,          \* runs of main started so far
    after_first,          \* local.note_embeddings when the first run ended
    faulted               \* some embedding call or insert has failed

chunk_vars == <<text, target_chunk_size, c_pc, chunks, windows, raised>>

search_vars == <<initial_threshold, min_threshold, threshold_step, min_results,
                 max_results, stored, s_pc, all_candidates, current_threshold,
                 final_results, attempted_thresholds, total_candidates_checked,
                 response, folder_path, show_debug, output>>

format_vars == <<show_debug, output>>

sync_vars == <<notes, tx, n_pc, todo, walked, cur, runs, snap, last, attempted, ingested>>

ingest_vars ==
    <<note, embeddings, i_pc, note_chunks, chunk_i, ingest_runs, after_first, faulted>>

vars == <<chunk_vars, search_vars, sync_vars, ingest_vars>>

----------------------------------------------------------------------------
(* Bounds *)

MaxTextLen == 7

MaxTarget == 4

MinTarget == 2      \* target sizes range over -MinTarget .. MaxTarget

MaxPool == 3        \* rows in the embeddings table (the query's LIMIT caps 50)

MaxResults == 3     \* min_results in 0..MaxResults, max_results in -1..MaxResults

MaxAttempts == 7    \* cap on loop passes, reached only when threshold_step <= 0

MaxRuns == 2        \* sync_notes runs

MaxIngestRuns == 2  \* runs of process_title + process_content on the note

MaxNoteLen == 5     \* characters in the note's content

IngestTargetSize == 2   \* stands for process_content's target_chunk_size of 1000

----------------------------------------------------------------------------
(* Python integer arithmetic and sequence helpers *)

Min(a, b) == IF a <= b THEN a ELSE b

Max(a, b) == IF a >= b THEN a ELSE b

\* a // b for b # 0: floor division, whatever the signs
PyFloorDiv(a, b) == a \div b

\* a % b for b # 0: the result has the sign of b
PyMod(a, b) == a - b * (a \div b)

\* list(range(start, stop, step)) for step # 0
RECURSIVE PyRange(_, _, _)
PyRange(start, stop, step) ==
    IF (step > 0 /\ start < stop) \/ (step < 0 /\ start > stop)
    THEN <<start>> \o PyRange(start + step, stop, step)
    ELSE <<>>

\* seq[lo:hi] with 0 <= lo, Python's half-open, clamped slice
PySlice(seq, lo, hi) == SubSeq(seq, lo + 1, Min(hi, Len(seq)))

RECURSIVE Flatten(_)
Flatten(ss) == IF ss = <<>> THEN <<>> ELSE Head(ss) \o Flatten(Tail(ss))

RECURSIVE SeqsUpTo(_, _)
SeqsUpTo(S, n) ==
    IF n = 0 THEN {<<>>}
    ELSE LET shorter == SeqsUpTo(S, n - 1)
         IN  shorter \cup {Append(s, x) : s \in {t \in shorter : Len(t) = n - 1}, x \in S}

----------------------------------------------------------------------------
(* Tokenizer *)

Chars == {1, 2}

\* the text of each token id
Vocab == <<(<<1>>), (<<2>>), (<<1, 2>>)>>

\* tokenizer.encode: greedy longest match, left to right
RECURSIVE Encode(_)
Encode(t) ==
    IF t = <<>> THEN <<>>
    ELSE IF Len(t) >= 2 /\ t[1] = 1 /\ t[2] = 2
         THEN <<3>> \o Encode(SubSeq(t, 3, Len(t)))
         ELSE <<t[1]>> \o Encode(Tail(t))

\* tokenizer.decode: the tokens' texts, joined
RECURSIVE Decode(_)
Decode(toks) ==
    IF toks = <<>> THEN <<>> ELSE Vocab[Head(toks)] \o Decode(Tail(toks))

----------------------------------------------------------------------------
(* chunk_text_by_tokens *)

\* n_chunks = (total_tokens + target_chunk_size - 1) // target_chunk_size
CeilChunks(total_tokens, target) == PyFloorDiv(total_tokens + target - 1, target)

\* last_chunk_size = total_tokens % target_chunk_size
LastChunkSize(total_tokens, target) == PyMod(total_tokens, target)

\* any non-zero remainder is redistributed
RedistributeAlways(total_tokens, target) == 0 < LastChunkSize(total_tokens, target)

\* 0 < last_chunk_size < target_chunk_size * 0.4
Redistribute(total_tokens, target) ==
    LET last_chunk_size == LastChunkSize(total_tokens, target)
    IN  0 < last_chunk_size /\ 10 * last_chunk_size < 4 * target

\* n_chunks after the redistribution test
NChunks(total_tokens, target) ==
    IF Redistribute(total_tokens, target)
    THEN Max(1, PyFloorDiv(total_tokens, target))
    ELSE CeilChunks(total_tokens, target)

\* chunk_size after the redistribution test
ChunkSize(total_tokens, target) ==
    IF Redistribute(total_tokens, target)
    THEN PyFloorDiv(total_tokens, NChunks(total_tokens, target))
    ELSE target

\* the slice stops one token early
ChunkTokensShort(tokens, i, chunk_size) ==
    PySlice(tokens, i, Min(i + chunk_size, Len(tokens)) - 1)

\* the slice runs one token into the next window
ChunkTokensLong(tokens, i, chunk_size) ==
    PySlice(tokens, i, Min(i + chunk_size + 1, Len(tokens)))

\* chunk_tokens = tokens[i:min(i + chunk_size, total_tokens)]
ChunkTokens(tokens, i, chunk_size) ==
    PySlice(tokens, i, Min(i + chunk_size, Len(tokens)))

\* the chunk_tokens of the loop over range(0, total_tokens, chunk_size)
ChunkWindows(tokens, chunk_size) ==
    LET starts == PyRange(0, Len(tokens), chunk_size)
    IN  [k \in 1..Len(starts) |-> ChunkTokens(tokens, starts[k], chunk_size)]

\* no short-circuit at exactly target tokens, and total // target + 1 windows
ChunkTextByTokensTrailing(t, target) ==
    LET tokens == Encode(t)
        total_tokens == Len(tokens)
    IN  IF t = <<>>
        THEN [raised |-> "none", chunks |-> <<>>, windows |-> <<>>]
        ELSE IF total_tokens < target
        THEN [raised |-> "none", chunks |-> <<t>>, windows |-> <<tokens>>]
        ELSE IF target = 0
        THEN [raised |-> "ZeroDivisionError", chunks |-> <<>>, windows |-> <<>>]
        ELSE LET n == PyFloorDiv(total_tokens, target) + 1
                 w == [k \in 1..Max(0, n) |-> PySlice(tokens, (k - 1) * target, k * target)]
             IN  [raised |-> "none",
                  chunks |-> [k \in 1..Len(w) |-> Decode(w[k])],
                  windows |-> w]

\* the whole call: what it returns or raises
ChunkTextByTokens(t, target) ==
    LET tokens == Encode(t)
        total_tokens == Len(tokens)
    IN  IF t = <<>>
        THEN [raised |-> "none", chunks |-> <<>>, windows |-> <<>>]
        ELSE IF total_tokens <= target
        THEN [raised |-> "none", chunks |-> <<t>>, windows |-> <<tokens>>]
        ELSE IF target = 0
        THEN [raised |-> "ZeroDivisionError", chunks |-> <<>>, windows |-> <<>>]
        ELSE LET w == ChunkWindows(tokens, ChunkSize(total_tokens, target))
             IN  [raised |-> "none",
                  chunks |-> [k \in 1..Len(w) |-> Decode(w[k])],
                  windows |-> w]

ChunkInit ==
    /\ text \in SeqsUpTo(Chars, MaxTextLen)
    /\ target_chunk_size \in (0 - MinTarget)..MaxTarget
    /\ c_pc = "call"
    /\ chunks = <<>>
    /\ windows = <<>>
    /\ raised = "none"

ChunkCall ==
    /\ c_pc = "call"
    /\ LET r == ChunkTextByTokens(text, target_chunk_size)
       IN  /\ chunks' = r.chunks
           /\ windows' = r.windows
           /\ raised' = r.raised
    /\ c_pc' = "done"
    /\ UNCHANGED <<text, target_chunk_size>>

----------------------------------------------------------------------------
(* adaptive_search_notes *)

\* similarity = 1 - distance: at most 1, negative when the distance exceeds 1
SimValues == {-20, 40, 60, 90}

InitialThresholds == {50, 80}

MinThresholds == {30, 60}

ThresholdSteps == {-10, 0, 10, 20}

\* ORDER BY similarity DESC
IsDescending(sims) == \A k \in 1..(Len(sims) - 1) : sims[k] >= sims[k + 1]

\* the folder of the note each embedding row belongs to (n.file_path)
NoteFolder(k) == IF k % 2 = 1 THEN "work" ELSE "home"

\* folder_path is None or a folder
FolderPaths == {"none", "work"}

\* rows of the candidates query: one per embedding row, best first
Rows(sims) ==
    [k \in 1..Len(sims) |->
        [section_id |-> k, similarity |-> sims[k], note_path |-> NoteFolder(k)]]

\* the synthetic pool 0.95, 0.90, ..., 0.50
SyntheticPool == Rows([k \in 1..10 |-> 100 - 5 * k])

\* LIMIT 50
PoolLimit == 50

\* more embedding rows than the query's LIMIT, none of them similar
LargePool == Rows([k \in 1..(PoolLimit + 10) |-> 40])

\* seq[:n], n of either sign
PyTake(seq, n) ==
    IF n >= 0 THEN SubSeq(seq, 1, Min(n, Len(seq)))
    ELSE SubSeq(seq, 1, Max(0, Len(seq) + n))

\* [r for r in all_candidates if r["similarity"] >= current_threshold]
RECURSIVE ThresholdResults(_, _)
ThresholdResults(cands, threshold) ==
    IF cands = <<>> THEN <<>>
    ELSE IF Head(cands).similarity >= threshold
         THEN <<Head(cands)>> \o ThresholdResults(Tail(cands), threshold)
         ELSE ThresholdResults(Tail(cands), threshold)

\* a loop that never looks at min_threshold
LoopGuardAlways(threshold, floor) == TRUE

\* while current_threshold >= min_threshold
LoopGuard(threshold, floor) == threshold >= floor

\* strictly more than min_results are demanded
EnoughResultsStrict(found, wanted) == Len(found) > wanted

\* if len(threshold_results) >= min_results
EnoughResults(found, wanted) == Len(found) >= wanted

\* no truncation
TruncateNone(found, limit) == found

\* truncation to one fewer than asked
TruncateShort(found, limit) == PyTake(found, limit - 1)

\* the last max_results are kept instead of the first
TruncateTail(found, limit) == SubSeq(found, Max(1, Len(found) - limit + 1), Len(found))

\* final_results = threshold_results[:max_results]
Truncate(found, limit) == PyTake(found, limit)

\* the threshold is raised instead of lowered
RaiseThreshold(threshold, step) == threshold + step

\* current_threshold -= threshold_step
LowerThreshold(threshold, step) == threshold - step

\* no fallback
FallbackNone(results, cands, limit) == results

\* if not final_results and all_candidates: final_results = all_candidates[:max_results]
Fallback(results, cands, limit) ==
    IF results = <<>> /\ cands # <<>> THEN PyTake(cands, limit) ELSE results

NoResponse == [kind |-> "none"]

SearchIdle ==
    /\ initial_threshold = 0
    /\ min_threshold = 0
    /\ threshold_step = 0
    /\ min_results = 0
    /\ max_results = 0
    /\ stored = <<>>
    /\ s_pc = "idle"
    /\ all_candidates = <<>>
    /\ current_threshold = 0
    /\ final_results = <<>>
    /\ attempted_thresholds = <<>>
    /\ total_candidates_checked = 0
    /\ response = NoResponse
    /\ folder_path = "none"
    /\ show_debug = FALSE
    /\ output = <<>>

ChunkIdle ==
    /\ text = <<>>
    /\ target_chunk_size = 0
    /\ c_pc = "idle"
    /\ chunks = <<>>
    /\ windows = <<>>
    /\ raised = "none"

SearchStart ==
    /\ s_pc = "embed"
    /\ all_candidates = <<>>
    /\ current_threshold = 0
    /\ final_results = <<>>
    /\ attempted_thresholds = <<>>
    /\ total_candidates_checked = 0
    /\ response = NoResponse
    /\ show_debug = FALSE
    /\ output = <<>>

SearchInit ==
    /\ \/ /\ stored \in {Rows(sims) : sims \in {q \in SeqsUpTo(SimValues, MaxPool) : IsDescending(q)}}
          /\ initial_threshold \in InitialThresholds
          /\ min_threshold \in MinThresholds
          /\ threshold_step \in ThresholdSteps
          /\ min_results \in 0..MaxResults
          /\ max_results \in (0 - 1)..MaxResults
          /\ folder_path \in FolderPaths
       \/ /\ stored = SyntheticPool
          /\ initial_threshold = 80
          /\ min_threshold = 30
          /\ threshold_step = 10
          /\ min_results \in {1, 5}
          /\ max_results \in {3, 5}
          /\ folder_path = "none"
       \/ /\ stored = LargePool
          /\ initial_threshold = 80
          /\ min_threshold = 60
          /\ threshold_step = 10
          /\ min_results = 1
          /\ max_results = 3
          /\ folder_path = "none"
    /\ SearchStart

params == <<initial_threshold, min_threshold, threshold_step, min_results, max_results, stored,
            folder_path>>

\* query_embedding = generate_embedding(query_text); conn = connect_to_db():
\* both are outside the try block, so a failure propagates to the caller
OpenQuery ==
    /\ s_pc = "embed"
    /\ \/ /\ s_pc' = "fetch"
          /\ UNCHANGED response
       \/ /\ s_pc' = "done"
          /\ response' = [kind |-> "raised"]
    /\ UNCHANGED <<params, all_candidates, current_threshold, final_results,
                   attempted_thresholds, total_candidates_checked>>

\* cur.execute(candidates_query); all_candidates = rows; current_threshold = initial_threshold
FetchCandidates ==
    /\ s_pc = "fetch"
    /\ \/ /\ all_candidates' = PyTake(stored, PoolLimit)
          /\ total_candidates_checked' = Len(all_candidates')
          /\ current_threshold' = initial_threshold
          /\ final_results' = <<>>
          /\ s_pc' = "loop"
          /\ UNCHANGED response
       \/ /\ s_pc' = "done"
          /\ response' = [kind |-> "error", results |-> <<>>,
                          attempted_thresholds |-> attempted_thresholds,
                          total_candidates_checked |-> total_candidates_checked]
          /\ UNCHANGED <<all_candidates, total_candidates_checked, current_threshold,
                         final_results>>
    /\ UNCHANGED <<params, attempted_thresholds>>

\* one pass of the while loop
LoopPass ==
    /\ s_pc = "loop"
    /\ LoopGuard(current_threshold, min_threshold)
    /\ Len(attempted_thresholds) < MaxAttempts
    /\ attempted_thresholds' = Append(attempted_thresholds, current_threshold)
    /\ LET threshold_results == ThresholdResults(all_candidates, current_threshold)
       IN  IF EnoughResults(threshold_results, min_results)
           THEN /\ final_results' = Truncate(threshold_results, max_results)
                /\ s_pc' = "after"
                /\ UNCHANGED current_threshold
           ELSE /\ current_threshold' = LowerThreshold(current_threshold, threshold_step)
                /\ UNCHANGED <<final_results, s_pc>>
    /\ UNCHANGED <<params, all_candidates, total_candidates_checked, response>>

\* the while condition is false
LoopExit ==
    /\ s_pc = "loop"
    /\ ~LoopGuard(current_threshold, min_threshold)
    /\ s_pc' = "after"
    /\ UNCHANGED <<params, all_candidates, current_threshold, final_results,
                   attempted_thresholds, total_candidates_checked, response>>

\* the fallback and the return
Finish ==
    /\ s_pc = "after"
    /\ final_results' = Fallback(final_results, all_candidates, max_results)
    /\ response' = [kind |-> "ok", results |-> final_results',
                    final_threshold |-> current_threshold,
                    attempted_thresholds |-> attempted_thresholds,
                    total_candidates_checked |-> total_candidates_checked]
    /\ s_pc' = "done"
    /\ UNCHANGED <<params, all_candidates, current_threshold, attempted_thresholds,
                   total_candidates_checked>>

\* "error" in search_response
HasErrorKey(resp) == resp.kind = "error"

\* one "Result #i" block per result
ResultLines(results) ==
    [i \in 1..Len(results) |->
        [tag |-> "result", rank |-> i, similarity |-> results[i].similarity,
         section_id |-> results[i].section_id, note_path |-> results[i].note_path]]

\* range_key = int(score * 10) / 10: the 0.1 interval, truncated towards zero
RangeKey(score) == IF score >= 0 THEN (score \div 10) * 10 ELSE 0 - (((0 - score) \div 10) * 10)

\* score_ranges: how many results fall in each 0.1 interval
ScoreRanges(results) ==
    LET keys == {RangeKey(results[i].similarity) : i \in 1..Len(results)}
    IN  [key \in keys |->
            Cardinality({i \in 1..Len(results) : RangeKey(results[i].similarity) = key})]

\* the DEBUG INFO block
DebugLines(resp) ==
    <<[tag |-> "debug", final_threshold |-> resp.final_threshold,
       attempted_thresholds |-> resp.attempted_thresholds,
       total_candidates_checked |-> resp.total_candidates_checked,
       score_ranges |-> ScoreRanges(resp.results)]>>

\* the "Error: ..." line is added only when show_debug is set
ErrorLines(resp, debug) ==
    IF debug /\ HasErrorKey(resp) THEN <<[tag |-> "error"]>> ELSE <<>>

\* format_search_results(search_response, show_debug)
FormatSearchResults(resp, debug) ==
    IF resp.results = <<>>
    THEN <<[tag |-> "no_match"]>> \o ErrorLines(resp, debug)
    ELSE <<[tag |-> "header"]>> \o ResultLines(resp.results)
            \o (IF debug THEN DebugLines(resp) ELSE <<>>)

\* the caller formats the dict the search returned
Format ==
    /\ s_pc = "done"
    /\ response.kind \in {"ok", "error"}
    /\ output = <<>>
    /\ \E debug \in BOOLEAN :
        /\ show_debug' = debug
        /\ output' = FormatSearchResults(response, debug)
    /\ UNCHANGED <<params, s_pc, all_candidates, current_threshold, final_results,
                   attempted_thresholds, total_candidates_checked, response>>

----------------------------------------------------------------------------
(* sync_notes *)

\* the files under obsidian_path, in os.walk order, as relative path parts
WalkOrder == <<(<<"a.md">>), (<<"todo.txt">>), (<<"d", "b.md">>)>>

\* file.endswith('.md')
IsMarkdown(path) == path[Len(path)] \in {"a.md", "b.md"}

\* Path(name).stem
Stem(name) == IF name = "a.md" THEN "a" ELSE IF name = "b.md" THEN "b" ELSE name

\* the file contents: no front-matter and no heading, a front-matter mapping
\* followed by a '# ' heading, front-matter that is no valid YAML, one that
\* parses to a list, an empty mapping, a mapping holding a date, and one holding
\* an impossible date, for which yaml.safe_load raises ValueError
Contents ==
    {"plain", "mapping", "yaml_error", "not_mapping", "empty_mapping",
     "date_mapping", "bad_date"}

\* extract_title: the first '# ' heading, else the filename stem
ExtractTitle(content, path) ==
    IF content = "mapping" THEN "Heading" ELSE Stem(path[Len(path)])

\* create_path_metadata
CreatePathMetadata(path) ==
    LET parts == SubSeq(path, 1, Len(path) - 1)
    IN  [directories |-> parts,
         filename |-> Stem(path[Len(path)]),
         depth |-> Len(parts),
         directory_levels |-> IF parts = <<>> THEN <<"null">> ELSE parts]

\* extract_properties: the dict, None, or an exception that is no yaml.YAMLError
ExtractProperties(content) ==
    CASE content = "mapping" -> [raised |-> "none", value |-> "dict"]
      [] content = "empty_mapping" -> [raised |-> "none", value |-> "empty_dict"]
      [] content = "date_mapping" -> [raised |-> "none", value |-> "date_dict"]
      [] content = "bad_date" -> [raised |-> "ValueError", value |-> "None"]
      [] OTHER -> [raised |-> "none", value |-> "None"]

\* json.dumps(properties_data) if properties_data else None
PropertiesParam(value) ==
    CASE value = "dict" -> [raised |-> "none", value |-> "json"]
      [] value = "date_dict" -> [raised |-> "TypeError", value |-> "null"]
      [] OTHER -> [raised |-> "none", value |-> "null"]

\* the id default of a new row
FreshId(rows) ==
    IF rows = {} THEN 1
    ELSE 1 + (CHOOSE m \in {r.id : r \in rows} : \A r \in rows : r.id <= m)

\* a plain INSERT, without the ON CONFLICT clause
UpsertAppend(rows, v, now) ==
    rows \cup {[id |-> FreshId(rows), file_path |-> v.file_path,
                title |-> v.title, content |-> v.content,
                properties |-> v.properties,
                path_metadata |-> v.path_metadata,
                file_created_at |-> v.file_created_at,
                file_modified_at |-> v.file_modified_at,
                sync_modified_at |-> now]}

\* an update that replaces the whole row, id and creation time included
UpsertReplace(rows, v, now) ==
    {r \in rows : r.file_path # v.file_path}
        \cup {[id |-> FreshId(rows), file_path |-> v.file_path,
                title |-> v.title, content |-> v.content,
                properties |-> v.properties,
                path_metadata |-> v.path_metadata,
                file_created_at |-> v.file_created_at,
                file_modified_at |-> v.file_modified_at,
                sync_modified_at |-> now]}

\* INSERT ... ON CONFLICT (file_path) DO UPDATE SET ...
Upsert(rows, v, now) ==
    IF \E r \in rows : r.file_path = v.file_path
    THEN {IF r.file_path = v.file_path
          THEN [r EXCEPT !.title = v.title, !.content = v.content,
                         !.properties = v.properties,
                         !.path_metadata = v.path_metadata,
                         !.file_modified_at = v.file_modified_at,
                         !.sync_modified_at = now]
          ELSE r : r \in rows}
    ELSE rows \cup {[id |-> FreshId(rows), file_path |-> v.file_path,
                     title |-> v.title, content |-> v.content,
                     properties |-> v.properties,
                     path_metadata |-> v.path_metadata,
                     file_created_at |-> v.file_created_at,
                     file_modified_at |-> v.file_modified_at,
                     sync_modified_at |-> now]}

\* what a statement on the connection sees: its own uncommitted writes
View(committed, pending) == IF pending = <<>> THEN committed ELSE pending[1]

\* conn.rollback()
Rollback(pending) == <<>>

\* the creation / modification times get_file_times reads
Stamps == {1, 2}

NoFile == [file_path |-> <<>>]

NoLine == [file_path |-> <<>>, outcome |-> "none", error |-> "none", content |-> "unread"]

SyncIdle ==
    /\ notes = {}
    /\ tx = <<>>
    /\ n_pc = "off"
    /\ todo = <<>>
    /\ walked = <<>>
    /\ cur = NoFile
    /\ runs = 0
    /\ snap = {}
    /\ last = NoLine
    /\ attempted = {}
    /\ ingested = {}

SyncInit ==
    /\ notes = {}
    /\ tx = <<>>
    /\ n_pc = "idle"
    /\ todo = <<>>
    /\ walked = <<>>
    /\ cur = NoFile
    /\ runs = 0
    /\ snap = {}
    /\ last = NoLine
    /\ attempted = {}
    /\ ingested = {}

\* the subsequence of WalkOrder at the positions in S
RECURSIVE WalkOf(_, _)
WalkOf(S, k) ==
    IF k > Len(WalkOrder) THEN <<>>
    ELSE (IF k \in S THEN <<WalkOrder[k]>> ELSE <<>>) \o WalkOf(S, k + 1)

\* sync_notes is called: connect_to_db(), then os.walk over the files present
StartRun ==
    /\ n_pc = "idle"
    /\ runs < MaxRuns
    /\ runs' = runs + 1
    /\ last' = NoLine
    /\ attempted' = {}
    /\ \/ \E S \in SUBSET (1..Len(WalkOrder)) :
            /\ walked' = WalkOf(S, 1)
            /\ todo' = WalkOf(S, 1)
            /\ n_pc' = "next"
       \/ /\ walked' = <<>>
          /\ todo' = <<>>
          /\ n_pc' = "idle"
    /\ UNCHANGED <<notes, tx, cur, snap, ingested>>

\* a file that does not end with '.md' is passed over
SkipFile ==
    /\ n_pc = "next"
    /\ todo # <<>>
    /\ ~IsMarkdown(Head(todo))
    /\ todo' = Tail(todo)
    /\ UNCHANGED <<notes, tx, n_pc, walked, cur, runs, snap, last, attempted, ingested>>

\* the try block of the next '.md' file is entered
EnterFile ==
    /\ n_pc = "next"
    /\ todo # <<>>
    /\ IsMarkdown(Head(todo))
    /\ cur' = [file_path |-> Head(todo)]
    /\ snap' = notes
    /\ attempted' = attempted \cup {Head(todo)}
    /\ n_pc' = "read"
    /\ UNCHANGED <<notes, tx, todo, walked, runs, last, ingested>>

\* os.walk is exhausted: finally closes the cursor and the connection
EndRun ==
    /\ n_pc = "next"
    /\ todo = <<>>
    /\ n_pc' = "idle"
    /\ tx' = <<>>
    /\ UNCHANGED <<notes, todo, walked, cur, runs, snap, last, attempted, ingested>>

\* a handler that ends the whole walk instead of continuing
HandlerAbort(pending, rest) == [tx |-> Rollback(pending), todo |-> <<>>]

\* except Exception: conn.rollback(); print; continue
Handler(pending, rest) == [tx |-> Rollback(pending), todo |-> Tail(rest)]

\* the except branch, for the exception `error` raised on `content`
Fail(error, content) ==
    LET h == Handler(tx, todo)
    IN  /\ tx' = h.tx
        /\ todo' = h.todo
        /\ last' = [file_path |-> cur.file_path, outcome |-> "error",
                     error |-> error, content |-> content]
        /\ n_pc' = "next"
        /\ UNCHANGED <<notes, walked, runs, snap, attempted, ingested>>

\* the file is read and its fields are extracted
ReadAndExtract ==
    /\ n_pc = "read"
    /\ \/ Fail("read", "unread") /\ UNCHANGED cur
       \/ \E content \in Contents, stamp \in Stamps :
            LET properties_data == ExtractProperties(content)
                param == PropertiesParam(properties_data.value)
            IN  IF properties_data.raised # "none"
                THEN Fail(properties_data.raised, content) /\ UNCHANGED cur
                ELSE IF param.raised # "none"
                THEN Fail(param.raised, content) /\ UNCHANGED cur
                ELSE /\ cur' = [file_path |-> cur.file_path,
                                title |-> ExtractTitle(content, cur.file_path),
                                content |-> content,
                                properties |-> param.value,
                                path_metadata |-> CreatePathMetadata(cur.file_path),
                                file_created_at |-> stamp,
                                file_modified_at |-> stamp]
                     /\ n_pc' = "execute"
                     /\ UNCHANGED <<notes, tx, todo, walked, runs, snap, last, attempted,
                                    ingested>>

\* cur.execute(INSERT ... ON CONFLICT ...)
Execute ==
    /\ n_pc = "execute"
    /\ \/ /\ tx' = <<Upsert(View(notes, tx), cur, runs)>>
          /\ n_pc' = "commit"
          /\ UNCHANGED <<notes, todo, walked, cur, runs, snap, last, attempted, ingested>>
       \/ Fail("execute", cur.content) /\ UNCHANGED cur

\* conn.commit() and the "Synced" line
Commit ==
    /\ n_pc = "commit"
    /\ \/ /\ notes' = View(notes, tx)
          /\ tx' = <<>>
          /\ last' = [file_path |-> cur.file_path, outcome |-> "synced",
                       error |-> "none", content |-> cur.content]
          /\ ingested' = ingested \cup {cur.file_path}
          /\ todo' = Tail(todo)
          /\ n_pc' = "next"
          /\ UNCHANGED <<walked, cur, runs, snap, attempted>>
       \/ Fail("commit", cur.content) /\ UNCHANGED cur

----------------------------------------------------------------------------
(* process_title, process_content *)

Titles == {<<>>, <<1>>}

\* generate_embedding: None for an empty text, else what the API call does
GenerateEmbedding(t, api) == IF t = <<>> THEN "None" ELSE api

EmbeddingRow(type, raw_content, section_order) ==
    [note_id |-> note.id, type |-> type, raw_content |-> raw_content,
     section_order |-> section_order]

\* INSERT INTO local.note_embeddings ... ; conn.commit()
InsertEmbedding(rows, row) == Append(rows, row)

IngestIdle ==
    /\ note = [id |-> 0, title |-> <<>>, content |-> <<>>]
    /\ embeddings = <<>>
    /\ i_pc = "off"
    /\ note_chunks = <<>>
    /\ chunk_i = 0
    /\ ingest_runs = 0
    /\ after_first = <<>>
    /\ faulted = FALSE

IngestInit ==
    /\ note \in [id : {1}, title : Titles, content : SeqsUpTo(Chars, MaxNoteLen)]
    /\ embeddings = <<>>
    /\ i_pc = "idle"
    /\ note_chunks = <<>>
    /\ chunk_i = 0
    /\ ingest_runs = 0
    /\ after_first = <<>>
    /\ faulted = FALSE

\* main: get_random_note returns the note
GetNote ==
    /\ i_pc \in {"idle", "done", "raised"}
    /\ ingest_runs < MaxIngestRuns
    /\ ingest_runs' = ingest_runs + 1
    /\ i_pc' = "title"
    /\ note_chunks' = <<>>
    /\ chunk_i' = 0
    /\ UNCHANGED <<note, embeddings, after_first, faulted>>

\* one embedding call and one insert, for the title or for a chunk; `next`
\* is where a swallowed failure or a success continues
EmbedAndStore(type, raw_content, section_order, next) ==
    \E api \in {"vector", "raises"}, insert \in {"ok", "error"} :
        LET embedding == GenerateEmbedding(raw_content, api)
        IN  IF embedding = "raises"
            THEN /\ i_pc' = "raised"
                 /\ faulted' = TRUE
                 /\ UNCHANGED embeddings
            ELSE IF embedding = "None"
            THEN /\ i_pc' = next
                 /\ faulted' = TRUE
                 /\ UNCHANGED embeddings
            ELSE IF insert = "error"
            THEN /\ i_pc' = next
                 /\ faulted' = TRUE
                 /\ UNCHANGED embeddings
            ELSE /\ i_pc' = next
                 /\ embeddings' = InsertEmbedding(embeddings,
                                        EmbeddingRow(type, raw_content, section_order))
                 /\ UNCHANGED faulted

\* process_title
ProcessTitle ==
    /\ i_pc = "title"
    /\ IF note.title = <<>>
       THEN i_pc' = "content" /\ UNCHANGED <<embeddings, faulted>>
       ELSE EmbedAndStore("title", note.title, 0, "content")
    /\ UNCHANGED <<note, note_chunks, chunk_i, ingest_runs, after_first>>

\* process_content up to the loop: chunks = chunk_text_by_tokens(content)
StartContent ==
    /\ i_pc = "content"
    /\ IF note.content = <<>>
       THEN i_pc' = "end" /\ UNCHANGED <<note_chunks, chunk_i>>
       ELSE /\ note_chunks' = ChunkTextByTokens(note.content, IngestTargetSize).chunks
            /\ chunk_i' = 0
            /\ i_pc' = "loop"
    /\ UNCHANGED <<note, embeddings, ingest_runs, after_first, faulted>>

\* one pass of for i, chunk in enumerate(chunks)
ProcessChunk ==
    /\ i_pc = "loop"
    /\ chunk_i < Len(note_chunks)
    /\ EmbedAndStore("content", note_chunks[chunk_i + 1], chunk_i + 1, "loop")
    /\ chunk_i' = chunk_i + 1
    /\ UNCHANGED <<note, note_chunks, ingest_runs, after_first>>

\* the loop is over
EndContent ==
    /\ i_pc = "loop"
    /\ chunk_i = Len(note_chunks)
    /\ i_pc' = "end"
    /\ UNCHANGED <<note, embeddings, note_chunks, chunk_i, ingest_runs, after_first, faulted>>

\* main prints "Note processing complete!"
Complete ==
    /\ i_pc = "end"
    /\ i_pc' = "done"
    /\ after_first' = IF ingest_runs = 1 THEN embeddings ELSE after_first
    /\ UNCHANGED <<note, embeddings, note_chunks, chunk_i, ingest_runs, faulted>>

----------------------------------------------------------------------------
(* Specifications *)

ChunkNext == ChunkCall /\ UNCHANGED <<search_vars, sync_vars, ingest_vars>>

ChunkSpecInit == ChunkInit /\ SearchIdle /\ SyncIdle /\ IngestIdle

ChunkSpec == ChunkSpecInit /\ [][ChunkNext]_vars

SearchNext ==
    \/ OpenQuery /\ UNCHANGED <<chunk_vars, format_vars, sync_vars, ingest_vars>>
    \/ FetchCandidates /\ UNCHANGED <<chunk_vars, format_vars, sync_vars, ingest_vars>>
    \/ LoopPass /\ UNCHANGED <<chunk_vars, format_vars, sync_vars, ingest_vars>>
    \/ LoopExit /\ UNCHANGED <<chunk_vars, format_vars, sync_vars, ingest_vars>>
    \/ Finish /\ UNCHANGED <<chunk_vars, format_vars, sync_vars, ingest_vars>>
    \/ Format /\ UNCHANGED <<chunk_vars, sync_vars, ingest_vars>>

SearchSpecInit == SearchInit /\ ChunkIdle /\ SyncIdle /\ IngestIdle

SearchSpec == SearchSpecInit /\ [][SearchNext]_vars

\* the interpreter keeps executing the call: no step that can be taken waits forever
SearchFairSpec == SearchSpec /\ WF_vars(SearchNext)

SyncNext ==
    \/ StartRun /\ UNCHANGED <<chunk_vars, search_vars, ingest_vars>>
    \/ SkipFile /\ UNCHANGED <<chunk_vars, search_vars, ingest_vars>>
    \/ EnterFile /\ UNCHANGED <<chunk_vars, search_vars, ingest_vars>>
    \/ EndRun /\ UNCHANGED <<chunk_vars, search_vars, ingest_vars>>
    \/ ReadAndExtract /\ UNCHANGED <<chunk_vars, search_vars, ingest_vars>>
    \/ Execute /\ UNCHANGED <<chunk_vars, search_vars, ingest_vars>>
    \/ Commit /\ UNCHANGED <<chunk_vars, search_vars, ingest_vars>>

SyncSpecInit == SyncInit /\ ChunkIdle /\ SearchIdle /\ IngestIdle

SyncSpec == SyncSpecInit /\ [][SyncNext]_vars

IngestNext ==
    \/ GetNote /\ UNCHANGED <<chunk_vars, search_vars, sync_vars>>
    \/ ProcessTitle /\ UNCHANGED <<chunk_vars, search_vars, sync_vars>>
    \/ StartContent /\ UNCHANGED <<chunk_vars, search_vars, sync_vars>>
    \/ ProcessChunk /\ UNCHANGED <<chunk_vars, search_vars, sync_vars>>
    \/ EndContent /\ UNCHANGED <<chunk_vars, search_vars, sync_vars>>
    \/ Complete /\ UNCHANGED <<chunk_vars, search_vars, sync_vars>>

IngestSpecInit == IngestInit /\ ChunkIdle /\ SearchIdle /\ SyncIdle

IngestSpec == IngestSpecInit /\ [][IngestNext]_vars

----------------------------------------------------------------------------
(* Properties of chunk_text_by_tokens, checked under ChunkSpec *)

ChunkDone == c_pc = "done"

TotalTokens == Len(Encode(text))

LastWindow == windows[Len(windows)]

\* C1: for every non-empty text and positive target, the token windows of the
\* returned chunks, concatenated in order, are exactly the input's token
\* sequence, and chunk k is the decoded window k.
C1_WindowsPartitionTokens ==
    (ChunkDone /\ text # <<>> /\ target_chunk_size > 0) =>
        /\ raised = "none"
        /\ Flatten(windows) = Encode(text)
        /\ Len(chunks) = Len(windows)
        /\ \A k \in 1..Len(windows) : chunks[k] = Decode(windows[k])

C1_Witness ==
    /\ ChunkDone /\ target_chunk_size > 0
    /\ Len(windows) = 3
    /\ Len(LastWindow) < Len(windows[1])
    /\ \E k \in 1..Len(Encode(text)) : Encode(text)[k] = 3

\* C2: a text of 2 * target + 1 tokens whose 1-token tail is under 40% of the
\* target is split into exactly 2 chunks.
C2_TwoChunks ==
    (ChunkDone /\ target_chunk_size > 0 /\ 10 * 1 < 4 * target_chunk_size
        /\ TotalTokens = 2 * target_chunk_size + 1) =>
        /\ raised = "none"
        /\ Len(chunks) = 2

\* C3: for a text of more than target tokens, the final chunk holds at least
\* 40% of target tokens.
C3_LastChunkNotSmall ==
    (ChunkDone /\ target_chunk_size > 0 /\ TotalTokens > target_chunk_size) =>
        /\ windows # <<>>
        /\ 10 * Len(LastWindow) >= 4 * target_chunk_size

\* C4 as stated: for all texts (the empty one included) of at most target
\* tokens, exactly one chunk is returned and it is the input string.
C4_AnyTextOneChunk ==
    (ChunkDone /\ target_chunk_size > 0 /\ TotalTokens <= target_chunk_size) =>
        chunks = <<text>>

\* C4 amended: for all non-empty texts of at most target tokens (exactly target
\* included), exactly one chunk is returned and it is the input string.
C4_NonEmptyTextOneChunk ==
    (ChunkDone /\ text # <<>> /\ target_chunk_size > 0
        /\ TotalTokens <= target_chunk_size) =>
        /\ raised = "none"
        /\ chunks = <<text>>

C4_Witness ==
    /\ ChunkDone /\ text # <<>> /\ target_chunk_size > 0
    /\ TotalTokens = target_chunk_size
    /\ chunks = <<text>>

\* C5: a non-positive target with non-empty text is reported as a precondition
\* violation: no division by zero, and no chunk list is returned.
C5_NonPositiveTargetReported ==
    (ChunkDone /\ text # <<>> /\ target_chunk_size <= 0) =>
        raised \notin {"none", "ZeroDivisionError"}

\* a call that reached the windowing loop: positive target, more tokens than it
ChunkLooped == ChunkDone /\ target_chunk_size > 0 /\ TotalTokens > target_chunk_size

\* C21: for a positive target and a text of more than target tokens, every
\* chunk but the last has exactly chunk_size tokens and the last has between
\* 1 and chunk_size tokens
C21_WindowSizes ==
    ChunkLooped =>
        LET chunk_size == ChunkSize(TotalTokens, target_chunk_size)
        IN  /\ windows # <<>>
            /\ \A k \in 1..(Len(windows) - 1) : Len(windows[k]) = chunk_size
            /\ 1 <= Len(LastWindow)
            /\ Len(LastWindow) <= chunk_size

\* three windows, the last one shorter than the redistributed chunk_size
C21_Witness ==
    /\ ChunkLooped
    /\ Redistribute(TotalTokens, target_chunk_size)
    /\ Len(windows) = 3
    /\ Len(windows[1]) = ChunkSize(TotalTokens, target_chunk_size)
    /\ Len(LastWindow) < Len(windows[1])

\* C22: for a positive target and a text of more than target tokens, the
\* number of chunks returned is the n_chunks the function computed
C22_ChunkCountIsNChunks ==
    ChunkLooped => Len(chunks) = NChunks(TotalTokens, target_chunk_size)

\* C26: for a positive target and a text of more than target tokens, every
\* chunk has fewer than 1.4 * target tokens, and more than target tokens only
\* when the remainder was redistributed
C26_ChunkBelowFourteenTenths ==
    ChunkLooped =>
        \A k \in 1..Len(windows) :
            /\ 10 * Len(windows[k]) < 14 * target_chunk_size
            /\ Len(windows[k]) > target_chunk_size =>
                    Redistribute(TotalTokens, target_chunk_size)

\* a chunk larger than the target
C26_Witness ==
    /\ ChunkLooped
    /\ \E k \in 1..Len(windows) : Len(windows[k]) > target_chunk_size

----------------------------------------------------------------------------
(* Properties of adaptive_search_notes, checked under SearchSpec *)

SearchOk == s_pc = "done" /\ response.kind = "ok"

\* 0 <= min_threshold <= initial_threshold <= 1, threshold_step > 0,
\* 1 <= min_results <= max_results
Preconditions ==
    /\ 0 <= min_threshold /\ min_threshold <= initial_threshold
    /\ initial_threshold <= 100
    /\ threshold_step > 0
    /\ 1 <= min_results /\ min_results <= max_results

\* the k-th threshold of the sequence initial, initial - step, ...
NthThreshold(k) == initial_threshold - k * threshold_step

\* positions of the pool candidates with similarity >= th
AtLeast(th) == {i \in 1..Len(stored) : stored[i].similarity >= th}

\* the steps k whose threshold is >= min_threshold and has min_results candidates
SufficientSteps ==
    {k \in 0..100 : NthThreshold(k) >= min_threshold
                    /\ Cardinality(AtLeast(NthThreshold(k))) >= min_results}

FirstSufficient == CHOOSE k \in SufficientSteps : \A j \in SufficientSteps : k <= j

\* the first n candidates of the pool among the positions I, in pool order
FirstOf(I, n) ==
    [j \in 1..Min(n, Cardinality(I)) |->
        stored[CHOOSE i \in I : Cardinality({x \in I : x < i}) = j - 1]]

\* C6: under the preconditions, if some threshold of the sequence has
\* min_results candidates, final_threshold is the first such threshold and the
\* results are the first max_results candidates at or above it.
C6_FirstSufficientThreshold ==
    (SearchOk /\ Preconditions /\ SufficientSteps # {}) =>
        /\ response.final_threshold = NthThreshold(FirstSufficient)
        /\ response.results = FirstOf(AtLeast(response.final_threshold), max_results)
        /\ (0 \in SufficientSteps => response.final_threshold = initial_threshold)

C6_Witness ==
    /\ SearchOk /\ Preconditions /\ SufficientSteps # {}
    /\ FirstSufficient >= 1
    /\ Cardinality(AtLeast(response.final_threshold)) > max_results
    /\ Len(response.results) = max_results

SyntheticRun ==
    /\ stored = SyntheticPool
    /\ initial_threshold = 80 /\ min_threshold = 30 /\ threshold_step = 10
    /\ min_results = 5 /\ max_results = 5

\* C7 as stated: the synthetic pool with min_results = 5 relaxes down to
\* final_threshold = 0.6 and returns exactly 5 results.
C7_RelaxesToSixty ==
    (SearchOk /\ SyntheticRun) =>
        /\ response.final_threshold = 60
        /\ Len(response.results) = 5

\* C7 amended: the synthetic pool with min_results = 5 relaxes one step, to
\* final_threshold = 0.8 - 0.1, where at least 5 candidates qualify, and returns
\* exactly the 5 best candidates.
C7_RelaxesOneStep ==
    (SearchOk /\ SyntheticRun) =>
        /\ response.final_threshold = 80 - 10
        /\ response.attempted_thresholds = <<80, 70>>
        /\ response.results = SubSeq(SyntheticPool, 1, 5)

C7_Witness == SearchOk /\ SyntheticRun /\ Len(response.results) = 5

\* C8: under the preconditions, when no threshold of the relaxation has
\* min_results candidates, the call returns without error the top max_results
\* candidates of the pool whatever their similarity, and an empty list for an
\* empty pool; an error never arises once filtering has begun.
C8_FallbackToBest ==
    /\ (SearchOk /\ Preconditions /\ SufficientSteps = {}) =>
            response.results = SubSeq(stored, 1, Min(max_results, Len(stored)))
    /\ (s_pc \in {"loop", "after"} \/ attempted_thresholds # <<>>) =>
            response.kind \in {"none", "ok"}

C8_Witness ==
    /\ SearchOk /\ Preconditions /\ SufficientSteps = {}
    /\ Len(stored) = 2 /\ min_results = 3
    /\ stored[2].similarity < min_threshold
    /\ response.results = stored

\* C9: with 1 <= min_results <= max_results, every non-error result holds at
\* least min_results candidates whenever the pool does, and is empty only if
\* the pool is empty.
C9_MinimumResults ==
    (SearchOk /\ 1 <= min_results /\ min_results <= max_results) =>
        /\ (Len(stored) >= min_results => Len(response.results) >= min_results)
        /\ (response.results = <<>> => stored = <<>>)

C9_Witness ==
    /\ SearchOk /\ min_results = 2 /\ max_results = 2
    /\ Len(stored) = 3
    /\ Cardinality(AtLeast(min_threshold)) < 2
    /\ Len(response.results) = 2

\* C10: with threshold_step > 0, every attempted threshold lies in
\* [min_threshold, initial_threshold], the first is initial_threshold and each
\* later one is the previous one minus threshold_step.
C10_ThresholdsDescendInRange ==
    threshold_step > 0 =>
        \A k \in 1..Len(attempted_thresholds) :
            /\ min_threshold <= attempted_thresholds[k]
            /\ attempted_thresholds[k] <= initial_threshold
            /\ (k = 1 => attempted_thresholds[k] = initial_threshold)
            /\ (k > 1 => attempted_thresholds[k] = attempted_thresholds[k - 1] - threshold_step)

C10_Witness ==
    /\ threshold_step > 0
    /\ Len(attempted_thresholds) >= 3
    /\ s_pc = "done"


\* C11: for max_results >= 0 the results of every non-error call are a prefix
\* of the pool (same candidates, pool order, so descending similarity with ties
\* in pool order) of length at most max_results.
C11_ResultsArePoolPrefix ==
    (SearchOk /\ max_results >= 0) =>
        /\ Len(response.results) <= max_results
        /\ Len(response.results) <= Len(stored)
        /\ response.results = SubSeq(stored, 1, Len(response.results))
        /\ IsDescending([k \in 1..Len(response.results) |-> response.results[k].similarity])

C11_Witness ==
    /\ SearchOk /\ max_results = 2
    /\ Len(stored) = 3
    /\ stored[1].similarity = stored[2].similarity
    /\ stored[2].similarity = stored[3].similarity
    /\ stored[3].similarity >= response.final_threshold
    /\ response.results = SubSeq(stored, 1, 2)


\* a successful search with zero matches
ZeroMatchResponse ==
    [kind |-> "ok", results |-> <<>>, final_threshold |-> current_threshold,
     attempted_thresholds |-> attempted_thresholds,
     total_candidates_checked |-> total_candidates_checked]

\* C12: a search whose embedding or storage query failed is distinguishable
\* from a successful search with zero matches, both in the returned value and
\* in the formatted text for any show_debug; zero matches carry no error.
C12_ErrorDistinctFromNoMatch ==
    /\ (s_pc = "done" /\ response.kind = "raised") => output = <<>>
    /\ (s_pc = "done" /\ response.kind = "error") =>
            /\ HasErrorKey(response)
            /\ response # ZeroMatchResponse
            /\ (output # <<>> => output # FormatSearchResults(ZeroMatchResponse, show_debug))
    /\ (s_pc = "done" /\ response.kind = "ok") => ~HasErrorKey(response)


\* C13: a call whose parameters violate the preconditions is reported as an
\* input validation error before any filtering, and returns no result list.
C13_InvalidParametersRejected ==
    ~Preconditions =>
        /\ attempted_thresholds = <<>>
        /\ (s_pc = "done" => response.kind # "ok")


\* C19: with a folder_path, every returned candidate belongs to a note under
\* that folder.
C19_FolderRestrictsSearch ==
    (SearchOk /\ folder_path # "none") =>
        \A k \in 1..Len(response.results) : response.results[k].note_path = folder_path


----------------------------------------------------------------------------
(* sync_notes claims *)

PathsOf(rows) == {r.file_path : r \in rows}

RowOf(rows, path) == CHOOSE r \in rows : r.file_path = path

\* a file has just been handled: its "Synced" or "Error processing" line is the last one
FileSynced == n_pc = "next" /\ last.outcome = "synced"

FileFailed == n_pc = "next" /\ last.outcome = "error"

MdFiles(walk) == {walk[k] : k \in {j \in 1..Len(walk) : IsMarkdown(walk[j])}}

\* C14: after any sequence of sync_notes runs, local.notes holds exactly one
\* row per path that was ingested successfully; ingesting a path that is
\* already present changes its row in place (same id, same number of rows)
C14_OneRowPerPath ==
    /\ \A r1, r2 \in notes : r1.file_path = r2.file_path => r1 = r2
    /\ PathsOf(notes) = ingested
    /\ (FileSynced /\ last.file_path \in PathsOf(snap)) =>
            /\ Cardinality(notes) = Cardinality(snap)
            /\ RowOf(notes, last.file_path).id = RowOf(snap, last.file_path).id

\* a second run has re-ingested a path with a different content
C14_Witness ==
    /\ FileSynced
    /\ runs = 2
    /\ last.file_path \in PathsOf(snap)
    /\ RowOf(snap, last.file_path).content = "plain"
    /\ RowOf(notes, last.file_path).content = "mapping"
    /\ Cardinality(notes) = 2

C20_FrontMatterNeverFails ==
    (n_pc = "next" /\ last.outcome # "none"
        /\ last.error \notin {"read", "execute", "commit"}) =>
            /\ last.outcome = "synced"
            /\ last.content \in {"plain", "yaml_error", "not_mapping"} =>
                    RowOf(notes, last.file_path).properties = "null"


----------------------------------------------------------------------------
(* process_title / process_content claims *)

\* the rows one complete ingestion of the note writes: the title at order 0,
\* then the chunker's chunks at orders 1..N
ExpectedRows ==
    LET cs == ChunkTextByTokens(note.content, IngestTargetSize).chunks
    IN  (IF note.title = <<>> THEN <<>> ELSE <<EmbeddingRow("title", note.title, 0)>>)
            \o [k \in 1..Len(cs) |-> EmbeddingRow("content", cs[k], k)]

SameIndex(r1, r2) ==
    /\ r1.note_id = r2.note_id
    /\ r1.type = r2.type
    /\ r1.section_order = r2.section_order

\* C15: a second run of process_title + process_content on the unchanged note
\* leaves the rows of the first run, each (note, type, order) held once
C15_RerunKeepsChunkSet ==
    (i_pc = "done" /\ ingest_runs = 2 /\ ~faulted) =>
        /\ embeddings = after_first
        /\ \A j, k \in 1..Len(embeddings) :
                SameIndex(embeddings[j], embeddings[k]) => j = k

\* C17: when a run has ended, normally or by an exception, the note's rows
\* are all there or none is
C17_AllOrNothing ==
    (i_pc \in {"done", "raised"} /\ ingest_runs = 1) =>
        embeddings \in {<<>>, ExpectedRows}

\* C18: after process_title and process_content have completed, the rows are
\* the title at order 0 and the chunks at orders 1..N, in that order
C18_OrdersContiguous ==
    (i_pc = "done" /\ note.title # <<>>) => embeddings = ExpectedRows


\* ceil(a / b) for a >= 0 and b > 0
CeilDiv(a, b) == (a + b - 1) \div b

\* C23: under the preconditions there are at most
\* ceil((initial_threshold - min_threshold) / threshold_step) + 1 filter
\* passes, and from the fetch on the pool is the one result of the single
\* query, at most 50 candidates
C23_BoundedPassesOnePool ==
    /\ Preconditions =>
            Len(attempted_thresholds)
                <= CeilDiv(initial_threshold - min_threshold, threshold_step) + 1
    /\ (s_pc \in {"loop", "after"} \/ SearchOk) =>
            /\ all_candidates = PyTake(stored, PoolLimit)
            /\ Len(all_candidates) <= PoolLimit
            /\ total_candidates_checked = Len(all_candidates)

\* more than 50 rows stored, 50 fetched, and every threshold down to
\* min_threshold tried on them
C23_Witness ==
    /\ SearchOk
    /\ Preconditions
    /\ Len(stored) > PoolLimit
    /\ Len(all_candidates) = PoolLimit
    /\ Len(attempted_thresholds)
            = CeilDiv(initial_threshold - min_threshold, threshold_step) + 1


\* C24: the threshold loop terminates for every combination of parameters,
\* threshold_step = 0 or negative included: a call that has entered the loop
\* gets past it
C24_LoopTerminates == (s_pc = "loop") ~> (s_pc = "after")


\* C25: in every non-error result, the fallback included, final_threshold lies
\* in [min_threshold, initial_threshold] and is one of the attempted
\* thresholds (here for calls that meet the preconditions)
C25_FinalThresholdAttempted ==
    (SearchOk /\ Preconditions) =>
        /\ min_threshold <= response.final_threshold
        /\ response.final_threshold <= initial_threshold
        /\ \E k \in 1..Len(response.attempted_thresholds) :
                response.attempted_thresholds[k] = response.final_threshold

\* the file just synced already had a row when its try block was entered
Reingested == FileSynced /\ last.file_path \in PathsOf(snap)

\* C27: re-ingesting a path that has a row keeps the row's id and
\* file_created_at, replaces title, content, properties, path_metadata and
\* file_modified_at by the new values, sets sync_modified_at to the time of
\* the statement, and leaves every other row as it was
C27_UpsertFrame ==
    Reingested =>
        LET old == RowOf(snap, last.file_path)
            new == RowOf(notes, last.file_path)
        IN  /\ new.id = old.id
            /\ new.file_created_at = old.file_created_at
            /\ new.title = cur.title
            /\ new.content = cur.content
            /\ new.properties = cur.properties
            /\ new.path_metadata = cur.path_metadata
            /\ new.file_modified_at = cur.file_modified_at
            /\ new.sync_modified_at = runs
            /\ {r \in notes : r.file_path # last.file_path}
                    = {r \in snap : r.file_path # last.file_path}

\* d/b.md, second of two rows, is re-ingested in the second run with new
\* content, title, properties and file times
C27_Witness ==
    /\ Reingested
    /\ last.file_path = <<"d", "b.md">>
    /\ Cardinality(snap) = 2
    /\ RowOf(snap, last.file_path).content = "plain"
    /\ RowOf(snap, last.file_path).file_created_at = 1
    /\ RowOf(snap, last.file_path).sync_modified_at = 1
    /\ cur.content = "mapping"
    /\ cur.file_created_at = 2
    /\ RowOf(notes, last.file_path).file_modified_at = 2
    /\ RowOf(notes, last.file_path).sync_modified_at = 2

====
